---- MODULE Spec2Model ----
(***************************************************************************)
(* RADIUS-Meraki authentication server (server.js).                        *)
(*                                                                         *)
(* Each POST /auth/radius request runs one call of authenticateWithRadius: *)
(* one UDP socket, one Access-Request, one 10 s timer.  Node runs every    *)
(* callback to completion; the continuation of the route's `await` is a    *)
(* promise microtask, which Node drains right after the callback that      *)
(* settled the promise and before any other timer or I/O callback.  An     *)
(* action below is therefore one callback together with the microtasks it  *)
(* triggers.                                                               *)
(***************************************************************************)
EXTENDS Naturals, Sequences, FiniteSets

(* ---------------- bounds of the model ---------------- *)

\* identifiers are drawn from 0 .. NumIdentifiers-1 (the code draws from 0..255)
NumIdentifiers == 2
\* datagrams the network delivers to the sockets of all attempts together
MaxDatagrams == 2
\* form submissions followed on one load of the splash page
MaxSubmissions == 2

\* the concurrent requests that are followed
Attempts == {1, 2}

Identifiers == 0 .. (NumIdentifiers - 1)

(* ---------------- configuration (server.js 26-33, 160) ---------------- *)

ALLOWED_FILTER_ID == "StaffPolicy"
ACCESS_DENIED_MESSAGE == "You don't belong to this SSID"
ACCESS_GRANTED_MESSAGE == "Access granted - Account verified"
\* `Access denied - ${ACCESS_DENIED_MESSAGE}` (server.js 180)
ACCESS_DENIED_VALIDATION == "Access denied - You don't belong to this SSID"

(* ---------------- values ---------------- *)

\* a JavaScript value that may be null/undefined: {} or {v}
None == {}
Some(v) == {v}

\* a check for undefined only, which lets the empty string through
TruthyNotNull(opt) == opt # None

\* JavaScript truthiness of an optional string: undefined, null and "" are falsy
Truthy(opt) == opt # None /\ opt # Some("")

\* what a request body may carry as username / password
Usernames == {None, Some(""), Some("alice")}
Passwords == {None, Some(""), Some("correct")}

FilterIdValues == {"", "StaffPolicy", "GuestPolicy"}

\* the attribute maps a response can carry: no Filter-Id, or one Filter-Id
NoAttributes == [FilterId |-> None]
AttributeMaps ==
    {NoAttributes} \cup { [FilterId |-> Some(v)] : v \in FilterIdValues }

ResponseCodes == {"Access-Accept", "Access-Reject", "Access-Challenge"}

\* A datagram arriving at an attempt's socket.  wellFormed: the bytes parse as
\* a RADIUS packet; identifier: byte 1 of the header; authOk: the response
\* authenticator equals the digest of the body, the attempt's request
\* authenticator and the shared secret.  Attributes are carried by
\* Access-Accept only, and a packet that does not parse has no fields to read.
Datagrams ==
    { d \in [wellFormed : BOOLEAN, code : ResponseCodes, identifier : Identifiers,
             authOk : BOOLEAN, attributes : AttributeMaps] :
        /\ (d.code # "Access-Accept" => d.attributes = NoAttributes)
        /\ (~d.wellFormed =>
               d.code = "Access-Reject" /\ d.identifier = 0 /\ ~d.authOk) }

NoResult == [state |-> "pending", success |-> FALSE, filterId |-> None, message |-> ""]

Resolved(success, filterId, message) ==
    [state |-> "resolved", success |-> success, filterId |-> filterId, message |-> message]

Rejected(message) ==
    [state |-> "rejected", success |-> FALSE, filterId |-> None, message |-> message]

\* att: the server's requests; page: the splash page in the browser
VARIABLES att, page

vars == <<att, page>>

\* the state of one request before it arrives
IdleAttempt ==
    [ req          |-> "none",       \* "none" | "received"
      username     |-> None,
      password     |-> None,
      socket       |-> "none",       \* "none" | "open" | "closed"
      listeners    |-> FALSE,        \* 'error' and 'message' handlers registered
      timeoutId    |-> "null",       \* "null" | "set"
      timer        |-> "unarmed",    \* "unarmed" | "armed" | "cleared" | "fired"
      clientClosed |-> FALSE,
      identifier   |-> 0,
      sendCb       |-> "none",       \* "none" | "pending" | "done"
      opens        |-> 0,
      closes       |-> 0,
      sends        |-> 0,
      arrived      |-> 0,            \* datagrams that reached the socket's port
      decoded      |-> <<>>,         \* the datagrams handed to radius.decode
      promise      |-> NoResult,
      settles      |-> <<>>,         \* the calls of resolve / reject, in order
      responses    |-> <<>> ]        \* the HTTP responses sent

\* the splash page before DOMContentLoaded (public script, lines 60-65)
PageNotLoaded ==
    [ loaded            |-> FALSE,
      base_grant_url    |-> "",
      user_continue_url |-> "",
      pc                |-> "idle",   \* "idle" | "fetching" | "granting" | "redirected"
      submissions       |-> 0,
      fetched           |-> None,     \* what the fetch of the current submission gave
      buttonDisabled    |-> FALSE,
      loadingShown      |-> FALSE,
      errorMessage      |-> None,
      successMessage    |-> None,
      validation        |-> None,
      location          |-> None ]    \* where window.location.href was sent

Init ==
    /\ att = [a \in Attempts |-> IdleAttempt]
    /\ page = PageNotLoaded

RECURSIVE SumArrived(_, _)
SumArrived(f, S) ==
    IF S = {} THEN 0
    ELSE LET a == CHOOSE x \in S : TRUE IN f[a].arrived + SumArrived(f, S \ {a})

(* ---------------- authenticateWithRadius: helpers ---------------- *)

\* a clearTimeoutSafely that forgets the timer
clearTimeoutSafelyKeepsTimer(s) == s

\* server.js 316-321
clearTimeoutSafely(s) ==
    IF s.timeoutId # "null"
    THEN [s EXCEPT !.timer = IF @ = "armed" THEN "cleared" ELSE @,
                   !.timeoutId = "null"]
    ELSE s

\* a closeSafely without the clientClosed guard: it closes again on every call
closeSafelyNoGuard(s) ==
    [s EXCEPT !.clientClosed = TRUE,
              !.listeners = FALSE,
              !.socket = "closed",
              !.closes = @ + 1]

\* server.js 324-334: removeAllListeners and close, guarded by clientClosed
closeSafely(s) ==
    IF s.clientClosed
    THEN s
    ELSE [s EXCEPT !.clientClosed = TRUE,
                   !.listeners = FALSE,
                   !.socket = "closed",
                   !.closes = @ + 1]

\* resolve(...) / reject(...) of the promise: the first call settles it, a later
\* call changes nothing.  settles records every call and whether the socket
\* was closed when it was made.
settle(s, by, outcome) ==
    [s EXCEPT !.settles = Append(@, [by |-> by, closed |-> s.clientClosed]),
              !.promise = IF @.state = "pending" THEN outcome ELSE @]

\* radius.decode({packet, secret}) as called at server.js 231-234: it is given
\* the datagram and the secret only, so neither the identifier nor the
\* authenticator of the outstanding request takes part.  It throws on bytes
\* that do not parse and otherwise returns the code and the attributes.
decode(message) ==
    [threw |-> ~message.wellFormed,
     code |-> message.code,
     attributes |-> message.attributes]

\* an extraction that reads the wrong attribute and so never finds a value
extractFilterIdNever(response) == None

\* server.js 248-250
extractFilterId(response) ==
    IF Truthy(response.attributes.FilterId) THEN response.attributes.FilterId ELSE None

(* ---------------- POST /auth/radius ---------------- *)

HttpResponse(status, success, message, filterId, validation) ==
    [status |-> status, success |-> success, message |-> message,
     filterId |-> filterId, validation |-> validation]

\* server.js 142-148
MissingCredentials ==
    HttpResponse(400, FALSE, "Username and password are required", None, None)

\* a route that grants on every accepted attempt, without the Filter-Id check
FacadeResponseNoPolicy(p) ==
    IF p.state = "rejected"
    THEN HttpResponse(500, FALSE, "Server error during authentication", None, None)
    ELSE IF p.success
    THEN HttpResponse(200, TRUE, "Authentication successful", p.filterId,
             Some([status |-> "success", message |-> ACCESS_GRANTED_MESSAGE]))
    ELSE HttpResponse(401, FALSE,
             IF p.message # "" THEN p.message ELSE "Authentication failed",
             None, None)

\* a route that treats a missing Filter-Id as a failed authentication
FacadeResponseMissingIs401(p) ==
    IF p.state = "rejected"
    THEN HttpResponse(500, FALSE, "Server error during authentication", None, None)
    ELSE IF p.success /\ p.filterId # None
    THEN IF p.filterId = Some(ALLOWED_FILTER_ID)
         THEN HttpResponse(200, TRUE, "Authentication successful", p.filterId,
                  Some([status |-> "success", message |-> ACCESS_GRANTED_MESSAGE]))
         ELSE HttpResponse(403, FALSE, ACCESS_DENIED_MESSAGE, p.filterId,
                  Some([status |-> "error", message |-> ACCESS_DENIED_VALIDATION]))
    ELSE HttpResponse(401, FALSE,
             IF p.message # "" THEN p.message ELSE "Authentication failed",
             None, None)

\* a route whose catch answers 401 like the other failures
FacadeResponseCatch401(p) ==
    IF p.state = "rejected"
    THEN HttpResponse(401, FALSE, "Server error during authentication", None, None)
    ELSE IF p.success
    THEN IF p.filterId = Some(ALLOWED_FILTER_ID)
         THEN HttpResponse(200, TRUE, "Authentication successful", p.filterId,
                  Some([status |-> "success", message |-> ACCESS_GRANTED_MESSAGE]))
         ELSE HttpResponse(403, FALSE, ACCESS_DENIED_MESSAGE, p.filterId,
                  Some([status |-> "error", message |-> ACCESS_DENIED_VALIDATION]))
    ELSE HttpResponse(401, FALSE,
             IF p.message # "" THEN p.message ELSE "Authentication failed",
             None, None)

\* server.js 153-197: what the route answers once the awaited promise settles
FacadeResponse(p) ==
    IF p.state = "rejected"
    THEN HttpResponse(500, FALSE, "Server error during authentication", None, None)
    ELSE IF p.success
    THEN IF p.filterId = Some(ALLOWED_FILTER_ID)
         THEN HttpResponse(200, TRUE, "Authentication successful", p.filterId,
                  Some([status |-> "success", message |-> ACCESS_GRANTED_MESSAGE]))
         ELSE HttpResponse(403, FALSE, ACCESS_DENIED_MESSAGE, p.filterId,
                  Some([status |-> "error", message |-> ACCESS_DENIED_VALIDATION]))
    ELSE HttpResponse(401, FALSE,
             IF p.message # "" THEN p.message ELSE "Authentication failed",
             None, None)

\* a route without its catch: a rejected promise is never answered
RunMicrotasksNoCatch(s) ==
    IF s.req = "received" /\ s.promise.state = "resolved" /\ s.responses = <<>>
    THEN [s EXCEPT !.responses = <<FacadeResponse(s.promise)>>]
    ELSE s

\* server.js 151: the continuation of `await authenticateWithRadius(...)`, run
\* once, when the promise has settled
RunMicrotasks(s) ==
    IF s.req = "received" /\ s.promise.state # "pending" /\ s.responses = <<>>
    THEN [s EXCEPT !.responses = <<FacadeResponse(s.promise)>>]
    ELSE s

(* ---------------- authenticateWithRadius: body and callbacks ---------------- *)

\* an executor that arms the timeout before the try block, so that the catch
\* leaves it armed
authenticateWithRadiusTimerFirst(s, identifier, encodeThrows) ==
    LET created == [s EXCEPT !.socket = "open", !.opens = @ + 1,
                             !.listeners = TRUE, !.timeoutId = "set",
                             !.timer = "armed",
                             !.clientClosed = FALSE,
                             !.identifier = identifier]
    IN  IF encodeThrows
        THEN settle(closeSafely(created), "catch",
                    Rejected("Failed to create authentication request"))
        ELSE [created EXCEPT !.sends = @ + 1, !.sendCb = "pending"]

\* an executor that sends but never arms the timeout
authenticateWithRadiusNoTimer(s, identifier, encodeThrows) ==
    LET created == [s EXCEPT !.socket = "open", !.opens = @ + 1,
                             !.listeners = TRUE, !.timeoutId = "null",
                             !.clientClosed = FALSE,
                             !.identifier = identifier]
    IN  IF encodeThrows
        THEN settle(closeSafely(created), "catch",
                    Rejected("Failed to create authentication request"))
        ELSE [created EXCEPT !.sends = @ + 1, !.sendCb = "pending"]

\* server.js 205-313: the promise executor.  encodeThrows: radius.encode (or
\* the call of client.send) throws into the catch at 309-313.
authenticateWithRadius(s, identifier, encodeThrows) ==
    LET created == [s EXCEPT !.socket = "open", !.opens = @ + 1,
                             !.listeners = TRUE, !.timeoutId = "null",
                             !.clientClosed = FALSE,
                             !.identifier = identifier]
    IN  IF encodeThrows
        THEN settle(closeSafely(created), "catch",
                    Rejected("Failed to create authentication request"))
        ELSE [created EXCEPT !.sends = @ + 1, !.sendCb = "pending",
                             !.timeoutId = "set", !.timer = "armed"]

\* a message handler whose catch only logs: the attempt keeps waiting
onMessageIgnoresDecodeError(s, message) ==
    IF s.clientClosed
    THEN s
    ELSE LET cleared == clearTimeoutSafely(s)
             tried == [cleared EXCEPT !.decoded = Append(@, message)]
             response == decode(message)
         IN  IF response.threw
             THEN tried
             ELSE IF response.code = "Access-Accept"
             THEN settle(closeSafely(tried), "message",
                         Resolved(TRUE, extractFilterId(response), ""))
             ELSE settle(closeSafely(tried), "message",
                         Resolved(FALSE, None,
                             "Authentication failed. Please check your credentials."))

\* a message handler that rejects on a code that is neither Access-Accept nor
\* Access-Reject
onMessageUnexpectedCode(s, message) ==
    IF s.clientClosed
    THEN s
    ELSE LET cleared == clearTimeoutSafely(s)
             tried == [cleared EXCEPT !.decoded = Append(@, message)]
             response == decode(message)
         IN  IF response.threw
             THEN settle(closeSafely(tried), "message",
                         Rejected("Failed to process authentication response"))
             ELSE IF response.code = "Access-Accept"
             THEN settle(closeSafely(tried), "message",
                         Resolved(TRUE, extractFilterId(response), ""))
             ELSE IF response.code = "Access-Reject"
             THEN settle(closeSafely(tried), "message",
                         Resolved(FALSE, None,
                             "Authentication failed. Please check your credentials."))
             ELSE settle(closeSafely(tried), "message",
                         Rejected("Unexpected response code"))

\* server.js 223-264
onMessage(s, message) ==
    IF s.clientClosed
    THEN s
    ELSE LET cleared == clearTimeoutSafely(s)
             tried == [cleared EXCEPT !.decoded = Append(@, message)]
             response == decode(message)
         IN  IF response.threw
             THEN settle(closeSafely(tried), "message",
                         Rejected("Failed to process authentication response"))
             ELSE IF response.code = "Access-Accept"
             THEN settle(closeSafely(tried), "message",
                         Resolved(TRUE, extractFilterId(response), ""))
             ELSE settle(closeSafely(tried), "message",
                         Resolved(FALSE, None,
                             "Authentication failed. Please check your credentials."))

\* an error handler that rejects without clearing the timer
onErrorKeepsTimer(s) ==
    IF ~s.clientClosed
    THEN settle(closeSafely(s), "error", Rejected("Network error"))
    ELSE s

\* an error handler that rejects without closing the socket
onErrorNoClose(s) ==
    IF ~s.clientClosed
    THEN settle(clearTimeoutSafely(s), "error", Rejected("Network error"))
    ELSE s

\* server.js 213-220
onError(s) ==
    IF ~s.clientClosed
    THEN settle(closeSafely(clearTimeoutSafely(s)), "error", Rejected("Network error"))
    ELSE s

\* a send callback that rejects without clearing the timer
onSendKeepsTimer(s, err) ==
    LET called == [s EXCEPT !.sendCb = "done"]
    IN  IF err
        THEN settle(closeSafely(called), "send",
                    Rejected("Failed to send authentication request"))
        ELSE called

\* server.js 286-300: the callback of client.send
onSend(s, err) ==
    LET called == [s EXCEPT !.sendCb = "done"]
    IN  IF err
        THEN settle(closeSafely(clearTimeoutSafely(called)), "send",
                    Rejected("Failed to send authentication request"))
        ELSE called

\* a timeout callback that rejects instead of resolving
onTimeoutRejects(s) ==
    settle(closeSafely([s EXCEPT !.timer = "fired"]), "timeout",
           Rejected("Authentication server timed out"))

\* a timeout callback that resolves without closing the socket
onTimeoutNoClose(s) ==
    settle([s EXCEPT !.timer = "fired"], "timeout",
           Resolved(FALSE, None, "Authentication server timed out"))

\* server.js 303-307
onTimeout(s) ==
    settle(closeSafely([s EXCEPT !.timer = "fired"]), "timeout",
           Resolved(FALSE, None, "Authentication server timed out"))

(* ---------------- actions ---------------- *)

\* server.js 127-151: a request arrives; the route runs up to its await
Request(a) ==
    /\ att[a].req = "none"
    /\ \E u \in Usernames, p \in Passwords :
         LET got == [att[a] EXCEPT !.req = "received", !.username = u, !.password = p]
         IN  IF ~Truthy(u) \/ ~Truthy(p)
             THEN att' = [att EXCEPT ![a] = [got EXCEPT !.responses = <<MissingCredentials>>]]
             ELSE \E id \in Identifiers, encodeThrows \in BOOLEAN :
                    att' = [att EXCEPT ![a] =
                              RunMicrotasks(authenticateWithRadius(got, id, encodeThrows))]
    /\ UNCHANGED page

\* one socket shared by all attempts: a datagram is handed to every waiting
\* attempt that chose the identifier of the attempt it was sent to
DeliverShared(a) ==
    /\ att[a].socket # "none"
    /\ SumArrived(att, Attempts) < MaxDatagrams
    /\ \E message \in Datagrams :
         att' = [b \in Attempts |->
                   LET s == IF b = a THEN [att[b] EXCEPT !.arrived = @ + 1] ELSE att[b]
                   IN  IF /\ s.socket = "open" /\ s.listeners
                          /\ s.identifier = att[a].identifier
                       THEN RunMicrotasks(onMessage(s, message))
                       ELSE s]
    /\ UNCHANGED page

\* a datagram reaches the port of attempt a's socket; the 'message' handler
\* runs if the socket is still open with its listeners
Deliver(a) ==
    /\ att[a].socket # "none"
    /\ SumArrived(att, Attempts) < MaxDatagrams
    /\ LET s == [att[a] EXCEPT !.arrived = @ + 1]
       IN  IF s.socket = "open" /\ s.listeners
           THEN \E message \in Datagrams :
                  att' = [att EXCEPT ![a] = RunMicrotasks(onMessage(s, message))]
           ELSE att' = [att EXCEPT ![a] = s]
    /\ UNCHANGED page

\* the socket emits 'error'
SocketError(a) ==
    /\ att[a].socket = "open"
    /\ att[a].listeners
    /\ att' = [att EXCEPT ![a] = RunMicrotasks(onError(@))]
    /\ UNCHANGED page

\* the send completes
SendSucceeds(a) ==
    /\ att[a].sendCb = "pending"
    /\ att' = [att EXCEPT ![a] = RunMicrotasks(onSend(@, FALSE))]
    /\ UNCHANGED page

\* the send fails (address lookup or the network)
SendFails(a) ==
    /\ att[a].sendCb = "pending"
    /\ att' = [att EXCEPT ![a] = RunMicrotasks(onSend(@, TRUE))]
    /\ UNCHANGED page

\* the 10 s timer expires
TimeoutFires(a) ==
    /\ att[a].timer = "armed"
    /\ att' = [att EXCEPT ![a] = RunMicrotasks(onTimeout(@))]
    /\ UNCHANGED page

Next ==
    \E a \in Attempts :
        \/ Request(a)
        \/ Deliver(a)
        \/ SocketError(a)
        \/ SendSucceeds(a)
        \/ SendFails(a)
        \/ TimeoutFires(a)

Spec == Init /\ [][Next]_vars

\* the event loop runs a timer that stays armed
FairSpec == Spec /\ \A a \in Attempts : WF_vars(TimeoutFires(a))

(* ---------------- the splash page (public script) ---------------- *)

\* the values a query parameter of the splash URL may have: absent, empty, set
GrantUrls == {None, Some(""), Some("https://n143.network-auth.com/splash/grant")}
ContinueUrls == {None, Some(""), Some("http://google.com")}

\* urlParams.get(name) || '' (lines 77-78)
OrEmpty(opt) == IF Truthy(opt) THEN CHOOSE v \in opt : TRUE ELSE ""

\* encodeURIComponent on the continue URLs above (line 196)
encodeURIComponent(u) ==
    IF u = "http://google.com" THEN "http%3A%2F%2Fgoogle.com" ELSE u

\* `${base_grant_url}?continue_url=${encodeURIComponent(user_continue_url)}`
GrantUrl(pg) ==
    [base |-> pg.base_grant_url,
     query |-> [continue_url |-> encodeURIComponent(pg.user_continue_url)]]

\* the promise outcomes authenticateWithRadius can settle with
SettledPromises ==
    { Resolved(TRUE, f, "") : f \in {None, Some("StaffPolicy"), Some("GuestPolicy")} }
      \cup { Resolved(FALSE, None, "Authentication failed. Please check your credentials."),
             Resolved(FALSE, None, "Authentication server timed out"),
             Rejected("Network error") }

\* what the fetch of /auth/radius can give the page: the answers of the route,
\* and answers of something in front of it (an ok status without success, an
\* error status with success)
ClientResponses ==
    {MissingCredentials} \cup { FacadeResponse(p) : p \in SettledPromises }
      \cup { HttpResponse(200, FALSE, "", None, None),
             HttpResponse(502, TRUE, "", None, None) }

\* response.ok
Ok(r) == r.status >= 200 /\ r.status <= 299

\* lines 204-214
showLoading(pg, show) ==
    [pg EXCEPT !.loadingShown = show, !.buttonDisabled = show]

\* lines 216-222
hideMessages(pg) == [pg EXCEPT !.errorMessage = None, !.successMessage = None]

\* lines 224-230
showErrorMessage(pg, message) == [pg EXCEPT !.errorMessage = Some(message)]

\* lines 232-238
showSuccessMessage(pg, message) == [pg EXCEPT !.successMessage = Some(message)]

\* lines 241-289, with the defaults of the callers (`status || d`, `message || m`)
showValidationStatus(pg, data, defaultStatus, defaultMessage) ==
    IF data.validation = None
    THEN pg
    ELSE LET v == CHOOSE x \in data.validation : TRUE
         IN  [pg EXCEPT !.validation =
                Some([status |-> IF v.status # "" THEN v.status ELSE defaultStatus,
                      message |-> IF v.message # "" THEN v.message ELSE defaultMessage])]

\* lines 291-296
hideValidationStatus(pg) == [pg EXCEPT !.validation = None]

\* lines 68-109
extractAndLogParameters(pg, grant, continue) ==
    LET got == [pg EXCEPT !.loaded = TRUE,
                          !.base_grant_url = OrEmpty(grant),
                          !.user_continue_url = OrEmpty(continue)]
    IN  IF got.base_grant_url = "" \/ got.user_continue_url = ""
        THEN showErrorMessage(got,
                 "This page must be accessed via Meraki splash page redirect.")
        ELSE got

\* lines 112-139: performAuthentication up to its `await fetch`
performAuthentication(pg) ==
    [hideValidationStatus(hideMessages(showLoading(pg, TRUE)))
        EXCEPT !.pc = "fetching", !.fetched = None, !.submissions = @ + 1]

\* a catch that shows the error but leaves the loading state on
onFetchErrorKeepsLoading(pg, kind) ==
    [showErrorMessage(pg, "Network error. Please try again later.")
        EXCEPT !.pc = "idle", !.fetched = Some([kind |-> kind])]

\* lines 178-182: the catch of performAuthentication (fetch rejected, or
\* response.json() rejected)
onFetchError(pg, kind) ==
    [showLoading(showErrorMessage(pg, "Network error. Please try again later."), FALSE)
        EXCEPT !.pc = "idle", !.fetched = Some([kind |-> kind])]

\* a page that looks at the HTTP status only
onFetchResponseStatusOnly(pg, r) ==
    LET seen == [pg EXCEPT !.fetched = Some([kind |-> "response", response |-> r])]
    IN  IF Ok(r)
        THEN [showValidationStatus(showSuccessMessage(seen, "Authentication successful!"),
                                   r, "success", "Access ")
                EXCEPT !.pc = "granting"]
        ELSE [showLoading(
                 showValidationStatus(
                     showErrorMessage(seen,
                         IF r.message # "" THEN r.message
                         ELSE "Authentication failed. Please check your credentials."),
                     r, "error", "Access denied"),
                 FALSE)
                EXCEPT !.pc = "idle"]

\* lines 141-177: performAuthentication after the response and its JSON arrived
onFetchResponse(pg, r) ==
    LET seen == [pg EXCEPT !.fetched = Some([kind |-> "response", response |-> r])]
    IN  IF Ok(r) /\ r.success
        THEN [showValidationStatus(showSuccessMessage(seen, "Authentication successful!"),
                                   r, "success", "Access ")
                EXCEPT !.pc = "granting"]
        ELSE [showLoading(
                 showValidationStatus(
                     showErrorMessage(seen,
                         IF r.message # "" THEN r.message
                         ELSE "Authentication failed. Please check your credentials."),
                     r, "error", "Access denied"),
                 FALSE)
                EXCEPT !.pc = "idle"]

\* lines 187-201
grantNetworkAccess(pg) ==
    IF pg.base_grant_url = ""
    THEN [showLoading(
             showErrorMessage(pg,
                 "Cannot grant network access due to missing parameters."),
             FALSE)
            EXCEPT !.pc = "idle"]
    ELSE [pg EXCEPT !.location = Some(GrantUrl(pg)), !.pc = "redirected"]

\* lines 46-58: DOMContentLoaded
LoadPage ==
    /\ ~page.loaded
    /\ \E grant \in GrantUrls, continue \in ContinueUrls :
         page' = extractAndLogParameters(page, grant, continue)
    /\ UNCHANGED att

\* lines 51-54: the form is submitted, which the disabled login button prevents
Submit ==
    /\ page.loaded
    /\ page.pc # "redirected"
    /\ ~page.buttonDisabled
    /\ page.submissions < MaxSubmissions
    /\ page' = performAuthentication(page)
    /\ UNCHANGED att

\* the fetch rejects
FetchFails ==
    /\ page.pc = "fetching"
    /\ page' = onFetchError(page, "networkError")
    /\ UNCHANGED att

\* the fetch answers with a body that is not JSON
FetchBadJson ==
    /\ page.pc = "fetching"
    /\ page' = onFetchError(page, "badJson")
    /\ UNCHANGED att

\* the fetch answers with a JSON body
FetchResponds ==
    /\ page.pc = "fetching"
    /\ \E r \in ClientResponses : page' = onFetchResponse(page, r)
    /\ UNCHANGED att

\* lines 159-161: the 1500 ms timer set after a success
GrantTimerFires ==
    /\ page.pc = "granting"
    /\ page' = grantNetworkAccess(page)
    /\ UNCHANGED att

ClientNext ==
    \/ LoadPage
    \/ Submit
    \/ FetchFails
    \/ FetchBadJson
    \/ FetchResponds
    \/ GrantTimerFires

ClientSpec == Init /\ [][ClientNext]_vars

(* ---------------- properties ---------------- *)

Terminal(s) == s.promise.state # "pending"
Started(s) == s.socket # "none"
Accepted(s) == s.promise.state = "resolved" /\ s.promise.success
TimedOut == Resolved(FALSE, None, "Authentication server timed out")

\* the settlements made by the callbacks in `who`
SettledBy(s, who) == { i \in DOMAIN s.settles : s.settles[i].by \in who }

\* C1: of the timeout callback and the message handler at most one settles an
\* attempt: once the timeout callback has run no datagram is decoded and the
\* outcome is and stays "timed out"; once a datagram has been decoded the timer
\* is cleared and the timeout callback never runs.
C1_TimeoutOrMessage ==
    \A a \in Attempts :
        LET s == att[a]
        IN  /\ Cardinality(SettledBy(s, {"timeout", "message"})) <= 1
            /\ (s.timer = "fired" => s.decoded = <<>> /\ s.promise = TimedOut)
            /\ (s.decoded # <<>> => s.timer = "cleared")

\* C1 witness: one attempt timed out and a datagram arrived at it afterwards,
\* while the other was settled by its message handler
C1_Witness ==
    \E a, b \in Attempts :
        /\ att[a].timer = "fired" /\ att[a].arrived > 0
        /\ att[a].promise = TimedOut
        /\ att[b].decoded # <<>> /\ att[b].timer = "cleared"
        /\ att[b].settles[1].by = "message"

\* C2: a datagram that arrives at an attempt in a terminal state is not decoded
\* and changes nothing of the attempt (outcome, clientClosed, timer); at most
\* one datagram is ever decoded per attempt.
C2_LateDatagramIgnored ==
    /\ [](\A a \in Attempts : Len(att[a].decoded) <= 1)
    /\ [][\A a \in Attempts :
              (Terminal(att[a]) /\ att'[a].arrived > att[a].arrived)
                  => att'[a] = [att[a] EXCEPT !.arrived = @ + 1]]_vars

\* C2 witness: a terminal attempt at which more datagrams arrived than it decoded
C2_Witness ==
    \E a \in Attempts :
        /\ Terminal(att[a])
        /\ att[a].arrived = 2
        /\ Len(att[a].decoded) = 1

\* C3: an attempt in a terminal state has its socket closed, and the socket was
\* already closed at every call of resolve or reject.
C3_ClosedWhenTerminal ==
    \A a \in Attempts :
        /\ (Terminal(att[a]) => att[a].clientClosed /\ att[a].socket = "closed")
        /\ \A i \in DOMAIN att[a].settles : att[a].settles[i].closed

\* C3 witness: attempts ended by a socket error and by an encode failure
C3_Witness ==
    \E a, b \in Attempts :
        /\ Terminal(att[a]) /\ att[a].settles[1].by = "error"
        /\ att[a].socket = "closed"
        /\ Terminal(att[b]) /\ att[b].settles[1].by = "catch"
        /\ att[b].socket = "closed"

\* C4: every started attempt eventually reaches a terminal state with its
\* socket closed (given that an armed timer eventually fires).
C4_EventuallyTerminal ==
    \A a \in Attempts :
        Started(att[a]) ~> (Terminal(att[a]) /\ att[a].socket = "closed")

\* C4 witness: with no datagram and no error the timeout callback ended the attempt
C4_Witness ==
    \E a \in Attempts :
        /\ att[a].arrived = 0
        /\ att[a].settles = <<[by |-> "timeout", closed |-> TRUE]>>
        /\ att[a].promise = TimedOut
        /\ att[a].socket = "closed"

\* C5 (as claimed): a datagram whose identifier differs from the identifier of
\* the attempt's request never resolves the attempt.
C5_ForeignIdentifierNeverResolves ==
    \A a \in Attempts :
        \A i \in DOMAIN att[a].decoded :
            (att[a].decoded[i].wellFormed
                /\ att[a].decoded[i].identifier # att[a].identifier)
              => att[a].promise.state # "resolved"

\* C6 (as claimed): a datagram whose response authenticator does not match
\* fails decoding, so the attempt is rejected and never accepted.
C6_BadAuthenticatorFailsDecoding ==
    \A a \in Attempts :
        \A i \in DOMAIN att[a].decoded :
            ~att[a].decoded[i].authOk
              => att[a].promise.state = "rejected" /\ ~Accepted(att[a])

\* C7: a 200 (the only answer with success=true) is given only when an
\* Access-Accept carrying the allowed Filter-Id was decoded as the attempt's
\* first terminal event; 200 and 403 are given only for accepted attempts.
C7_GrantOnlyOnAcceptWithFilter ==
    \A a \in Attempts :
        \A i \in DOMAIN att[a].responses :
            LET r == att[a].responses[i]
                s == att[a]
            IN  /\ (r.success <=> r.status = 200)
                /\ (r.status = 200 =>
                       /\ s.settles # <<>> /\ s.settles[1].by = "message"
                       /\ s.decoded # <<>>
                       /\ s.decoded[1].code = "Access-Accept"
                       /\ s.decoded[1].attributes.FilterId = Some(ALLOWED_FILTER_ID))
                /\ (r.status \in {200, 403} => Accepted(s))

\* C7 witness: a request answered 200
C7_Witness ==
    \E a \in Attempts :
        /\ Len(att[a].responses) = 1
        /\ att[a].responses[1].status = 200
        /\ att[a].responses[1].success

\* C8: for an accepted attempt whose Access-Accept carries the Filter-Id v, the
\* answer is 200/success/filterId=v with the grant message when v is the
\* expected value, and 403/failure with the deny message for any other v.
C8_FilterIdDecides ==
    \A a \in Attempts : \A v \in FilterIdValues :
        (Accepted(att[a]) /\ att[a].decoded[1].attributes.FilterId = Some(v))
          => IF v = ALLOWED_FILTER_ID
             THEN att[a].responses =
                    <<HttpResponse(200, TRUE, "Authentication successful", Some(v),
                        Some([status |-> "success", message |-> ACCESS_GRANTED_MESSAGE]))>>
             ELSE /\ Len(att[a].responses) = 1
                  /\ att[a].responses[1].status = 403
                  /\ ~att[a].responses[1].success
                  /\ att[a].responses[1].message = ACCESS_DENIED_MESSAGE

\* C8 witness: one accepted attempt granted, another denied for GuestPolicy
C8_Witness ==
    \E a, b \in Attempts :
        /\ Accepted(att[a])
        /\ att[a].decoded[1].attributes.FilterId = Some(ALLOWED_FILTER_ID)
        /\ att[a].responses[1].status = 200
        /\ Accepted(att[b])
        /\ att[b].decoded[1].attributes.FilterId = Some("GuestPolicy")
        /\ att[b].responses[1].status = 403

\* C9: an Access-Accept with no Filter-Id, or an empty one, still resolves the
\* attempt as accepted, and the request is answered 403.
C9_MissingFilterIdDenied ==
    \A a \in Attempts :
        (/\ att[a].decoded # <<>>
         /\ att[a].decoded[1].wellFormed
         /\ att[a].decoded[1].code = "Access-Accept"
         /\ att[a].decoded[1].attributes.FilterId \in {None, Some("")})
          => /\ Accepted(att[a])
             /\ att[a].promise.filterId = None
             /\ Len(att[a].responses) = 1
             /\ att[a].responses[1].status = 403

\* C9 witness: both cases, the attribute absent and the attribute empty
C9_Witness ==
    \E a, b \in Attempts :
        /\ att[a].decoded # <<>> /\ att[a].decoded[1].wellFormed
        /\ att[a].decoded[1].code = "Access-Accept"
        /\ att[a].decoded[1].attributes.FilterId = None
        /\ att[a].responses # <<>> /\ att[a].responses[1].status = 403
        /\ att[b].decoded # <<>> /\ att[b].decoded[1].wellFormed
        /\ att[b].decoded[1].code = "Access-Accept"
        /\ att[b].decoded[1].attributes.FilterId = Some("")
        /\ att[b].responses # <<>> /\ att[b].responses[1].status = 403

\* C10 (as claimed): every terminal outcome that is not accepted is answered
\* 401 with success=false.
C10_EveryFailureIs401 ==
    \A a \in Attempts :
        (Terminal(att[a]) /\ ~Accepted(att[a]))
          => /\ Len(att[a].responses) = 1
             /\ att[a].responses[1].status = 401
             /\ ~att[a].responses[1].success

\* C10 (amended): an attempt that resolves without acceptance (Access-Reject or
\* another code that is not Access-Accept, timeout) is answered 401, an attempt
\* that is rejected (socket error, send failure, decode error, encode failure)
\* is answered 500; both carry success=false.
C10_FailureIs401Or500 ==
    \A a \in Attempts :
        (Terminal(att[a]) /\ ~Accepted(att[a]))
          => /\ Len(att[a].responses) = 1
             /\ ~att[a].responses[1].success
             /\ att[a].responses[1].status =
                   IF att[a].promise.state = "rejected" THEN 500 ELSE 401

\* C10 witness: a send failure answered 500 next to a timeout answered 401
C10_Witness ==
    \E a, b \in Attempts :
        /\ att[a].settles # <<>> /\ att[a].settles[1].by = "send"
        /\ att[a].responses # <<>> /\ att[a].responses[1].status = 500
        /\ att[b].settles # <<>> /\ att[b].settles[1].by = "timeout"
        /\ att[b].responses # <<>> /\ att[b].responses[1].status = 401

RejectOutcome ==
    Resolved(FALSE, None, "Authentication failed. Please check your credentials.")

\* C11 (as claimed): every attempt that has ended opened one socket, closed it
\* once and performed exactly one send.
C11_ExactlyOneSend ==
    \A a \in Attempts :
        Terminal(att[a]) =>
            att[a].opens = 1 /\ att[a].closes = 1 /\ att[a].sends = 1

\* C11 (amended): every attempt opens one socket, never closes it twice and has
\* closed it once when it ends; it sends at most once, and exactly once unless
\* building the request failed, in which case it sends nothing.
C11_OneSocketAtMostOneSend ==
    \A a \in Attempts :
        LET s == att[a]
        IN  /\ (Started(s) => s.opens = 1)
            /\ s.closes <= 1
            /\ (Terminal(s) => s.closes = 1)
            /\ s.sends <= 1
            /\ (Started(s) =>
                   (s.sends = 0 <=> (s.settles # <<>> /\ s.settles[1].by = "catch")))

\* C11 witness: an attempt that timed out and whose send then failed has still
\* closed once and sent once, next to one that failed to encode and sent nothing
C11_Witness ==
    \E a, b \in Attempts :
        /\ Len(att[a].settles) = 2 /\ att[a].closes = 1 /\ att[a].sends = 1
        /\ Terminal(att[b]) /\ att[b].sends = 0 /\ att[b].closes = 1

\* C12: a step that changes one attempt leaves every other attempt unchanged,
\* also when both chose the same identifier.
C12_AttemptsIndependent ==
    [][\A a \in Attempts :
          att'[a] # att[a] => \A b \in Attempts \ {a} : att'[b] = att[b]]_vars

\* C12 witness: an attempt settled by a datagram carrying the identifier that
\* both attempts chose, while the other attempt is still waiting, untouched
C12_Witness ==
    \E a, b \in Attempts :
        /\ a # b
        /\ att[a].identifier = att[b].identifier
        /\ att[a].decoded # <<>>
        /\ att[a].decoded[1].identifier = att[b].identifier
        /\ Terminal(att[a])
        /\ att[b].timer = "armed" /\ ~Terminal(att[b])
        /\ att[b].arrived = 0 /\ att[b].decoded = <<>>

\* C13: a request without a username or a password (missing or empty) is
\* answered 400 with success=false and starts no exchange: no socket, no send,
\* no timer.
C13_MissingCredentials400 ==
    \A a \in Attempts :
        (att[a].req = "received"
            /\ (att[a].username \in {None, Some("")}
                  \/ att[a].password \in {None, Some("")}))
          => /\ att[a].responses = <<MissingCredentials>>
             /\ att[a].responses[1].status = 400
             /\ ~att[a].responses[1].success
             /\ att[a].socket = "none" /\ att[a].opens = 0
             /\ att[a].sends = 0 /\ att[a].sendCb = "none"
             /\ att[a].timer = "unarmed" /\ att[a].timeoutId = "null"
             /\ att[a].settles = <<>>

\* C13 witness: one request with an empty username, one with no password
C13_Witness ==
    \E a, b \in Attempts :
        /\ att[a].req = "received" /\ att[a].username = Some("")
        /\ att[a].password = Some("correct")
        /\ att[a].responses # <<>> /\ att[a].responses[1].status = 400
        /\ att[b].req = "received" /\ att[b].username = Some("alice")
        /\ att[b].password = None
        /\ att[b].responses # <<>> /\ att[b].responses[1].status = 400

\* C14: when the timeout callback is what ends the attempt, the request is
\* answered 401, success=false, "Authentication server timed out".
C14_TimeoutIs401 ==
    \A a \in Attempts :
        (att[a].settles # <<>> /\ att[a].settles[1].by = "timeout")
          => att[a].responses =
               <<HttpResponse(401, FALSE, "Authentication server timed out", None, None)>>

\* C14 witness: the timer fired on a waiting attempt and the answer is 401
C14_Witness ==
    \E a \in Attempts :
        /\ att[a].timer = "fired"
        /\ att[a].decoded = <<>>
        /\ att[a].settles[1].by = "timeout"
        /\ att[a].responses[1].status = 401
        /\ att[a].responses[1].message = "Authentication server timed out"

\* C15: when the first datagram of a waiting attempt cannot be decoded the
\* attempt ends at once: timer cleared, socket closed, promise rejected, and
\* the answer is 401 or 500.
C15_DecodeFailureEndsAttempt ==
    \A a \in Attempts :
        (att[a].decoded # <<>> /\ ~att[a].decoded[1].wellFormed)
          => /\ att[a].promise = Rejected("Failed to process authentication response")
             /\ att[a].timer = "cleared"
             /\ att[a].clientClosed /\ att[a].socket = "closed"
             /\ Len(att[a].responses) = 1
             /\ att[a].responses[1].status \in {401, 500}
             /\ ~att[a].responses[1].success

\* C15 witness: a malformed datagram ended an attempt, answered 500
C15_Witness ==
    \E a \in Attempts :
        /\ att[a].decoded # <<>> /\ ~att[a].decoded[1].wellFormed
        /\ att[a].settles[1].by = "message"
        /\ att[a].responses[1].status = 500

\* C17 (as claimed): resolve or reject is called at most once per attempt.
C17_SettledAtMostOnce ==
    \A a \in Attempts : Len(att[a].settles) <= 1

\* C18 (as claimed): whenever the send has failed, the attempt is in the
\* send-failure state with its timer cleared, and has not timed out.
C18_SendFailureNeverTimedOut ==
    \A a \in Attempts :
        SettledBy(att[a], {"send"}) # {}
          => /\ att[a].promise = Rejected("Failed to send authentication request")
             /\ att[a].timer = "cleared"
             /\ att[a].socket = "closed"

\* C18 (amended): when the send fails while the attempt is still pending, the
\* attempt ends at once with the send failure: timer cleared, socket closed,
\* and it never times out.
C18_SendFailureWhilePending ==
    \A a \in Attempts :
        (att[a].settles # <<>> /\ att[a].settles[1].by = "send")
          => /\ att[a].promise = Rejected("Failed to send authentication request")
             /\ att[a].timer = "cleared" /\ att[a].timeoutId = "null"
             /\ att[a].clientClosed /\ att[a].socket = "closed"
             /\ SettledBy(att[a], {"timeout"}) = {}

\* C18 witness: a send failure ended a waiting attempt
C18_Witness ==
    \E a \in Attempts :
        /\ att[a].settles = <<[by |-> "send", closed |-> TRUE]>>
        /\ att[a].promise.state = "rejected"
        /\ att[a].timer = "cleared"

\* C19 (as claimed): a decoded code that is neither Access-Accept nor
\* Access-Reject is a decode failure, an outcome other than the one of
\* Access-Reject.
C19_UnexpectedCodeIsDecodeFailure ==
    \A a \in Attempts :
        (/\ att[a].decoded # <<>> /\ att[a].decoded[1].wellFormed
         /\ att[a].decoded[1].code \notin {"Access-Accept", "Access-Reject"})
          => att[a].promise.state = "rejected" /\ att[a].promise # RejectOutcome

\* C19 (amended): every decoded code other than Access-Accept, Access-Reject
\* or not, resolves the attempt with the one outcome of Access-Reject
\* (success=false, the credentials message) and is answered 401.
C19_NonAcceptIsReject ==
    \A a \in Attempts :
        (/\ att[a].decoded # <<>> /\ att[a].decoded[1].wellFormed
         /\ att[a].decoded[1].code # "Access-Accept")
          => /\ att[a].promise = RejectOutcome
             /\ Len(att[a].responses) = 1
             /\ att[a].responses[1].status = 401

\* C19 witness: an Access-Challenge and an Access-Reject gave the same outcome
C19_Witness ==
    \E a, b \in Attempts :
        /\ att[a].decoded # <<>> /\ att[a].decoded[1].wellFormed
        /\ att[a].decoded[1].code = "Access-Challenge"
        /\ att[b].decoded # <<>> /\ att[b].decoded[1].wellFormed
        /\ att[b].decoded[1].code = "Access-Reject"
        /\ att[a].promise = att[b].promise
        /\ att[a].promise = RejectOutcome

\* C20: when building the request throws, nothing is sent, the timeout is never
\* armed, the socket is closed and the attempt is rejected; nothing is retried.
C20_EncodeFailureAbandons ==
    \A a \in Attempts :
        (att[a].settles # <<>> /\ att[a].settles[1].by = "catch")
          => /\ att[a].sends = 0 /\ att[a].sendCb = "none"
             /\ att[a].timer = "unarmed" /\ att[a].timeoutId = "null"
             /\ att[a].clientClosed /\ att[a].socket = "closed"
             /\ att[a].opens = 1
             /\ att[a].promise = Rejected("Failed to create authentication request")
             /\ Len(att[a].settles) = 1

\* C20 witness: an attempt whose encode failed, with a datagram arriving later
C20_Witness ==
    \E a \in Attempts :
        /\ att[a].settles # <<>> /\ att[a].settles[1].by = "catch"
        /\ att[a].arrived > 0
        /\ att[a].sends = 0

\* C16: the page is redirected only to the grant URL, only when the fetch of
\* the submission in course answered HTTP-ok with success=true, and only with
\* a non-empty base_grant_url; a submission whose fetch failed or answered
\* anything else ends without a redirect.
C16_RedirectOnlyAfterSuccess ==
    /\ (page.location # None =>
           /\ page.pc = "redirected"
           /\ page.base_grant_url # ""
           /\ page.location = Some(GrantUrl(page))
           /\ \E f \in page.fetched :
                 f.kind = "response" /\ Ok(f.response) /\ f.response.success)
    /\ (page.pc \in {"granting", "redirected"} =>
           \E f \in page.fetched :
                 f.kind = "response" /\ Ok(f.response) /\ f.response.success)
    /\ (page.pc = "redirected" => page.location # None)

\* C16 witness: a first submission failed, the second one was redirected
C16_Witness ==
    /\ page.submissions = 2
    /\ page.pc = "redirected"
    /\ page.location = Some(GrantUrl(page))
    /\ page.base_grant_url = "https://n143.network-auth.com/splash/grant"

\* C21: no timer outlives its attempt: an attempt in a terminal state has no
\* armed timer, and the timeout callback never runs for an attempt that was
\* ended by a response, a socket error, a send failure or an encode failure.
C21_NoTimerOutlivesAttempt ==
    \A a \in Attempts :
        LET s == att[a]
        IN  /\ (Terminal(s) => s.timer \in {"unarmed", "cleared", "fired"})
            /\ ((s.settles # <<>>
                    /\ s.settles[1].by \in {"message", "error", "send", "catch"})
                  => s.timer # "fired" /\ SettledBy(s, {"timeout"}) = {})
            /\ (s.timer = "fired" => s.settles[1].by = "timeout")

\* C21 witness: a socket error ended one attempt with its timer cleared, an
\* encode failure ended the other with no timer ever armed
C21_Witness ==
    \E a, b \in Attempts :
        /\ att[a].settles # <<>> /\ att[a].settles[1].by = "error"
        /\ att[a].timer = "cleared"
        /\ att[b].settles # <<>> /\ att[b].settles[1].by = "catch"
        /\ att[b].timer = "unarmed"

\* C22: every request is eventually answered, exactly once, with a status in
\* {400, 200, 403, 401, 500}; a rejected attempt is answered 500 with
\* success=false; no request is ever answered twice.
C22_ExactlyOneResponse ==
    /\ [](\A a \in Attempts :
            /\ Len(att[a].responses) <= 1
            /\ \A i \in DOMAIN att[a].responses :
                  att[a].responses[i].status \in {400, 200, 403, 401, 500}
            /\ (att[a].promise.state = "rejected" =>
                   /\ Len(att[a].responses) = 1
                   /\ att[a].responses[1].status = 500
                   /\ ~att[a].responses[1].success))
    /\ \A a \in Attempts :
          (att[a].req = "received") ~> (Len(att[a].responses) = 1)

\* C22 witness: a request answered after its promise was settled twice (timeout,
\* then a failed send) still has one answer; the other was answered 500
C22_Witness ==
    \E a, b \in Attempts :
        /\ Len(att[a].settles) = 2 /\ Len(att[a].responses) = 1
        /\ att[a].responses[1].status = 401
        /\ att[b].promise.state = "rejected" /\ Len(att[b].responses) = 1
        /\ att[b].responses[1].status = 500

\* C23: the login button is disabled while a submission is in course (fetching,
\* or waiting to grant), enabled again once a submission has ended without a
\* redirect, and left disabled only after the redirect.
C23_ButtonFollowsSubmission ==
    /\ (page.pc \in {"fetching", "granting"} => page.buttonDisabled)
    /\ (page.pc = "idle" => ~page.buttonDisabled)
    /\ (page.pc = "redirected" => page.buttonDisabled /\ page.location # None)
    /\ (page.buttonDisabled => page.submissions > 0)

\* C23 witness: a submission succeeded but base_grant_url is missing: the
\* button is enabled again and nothing was redirected
C23_Witness ==
    /\ page.submissions = 1
    /\ page.pc = "idle"
    /\ page.base_grant_url = ""
    /\ \E f \in page.fetched :
          f.kind = "response" /\ Ok(f.response) /\ f.response.success
    /\ page.errorMessage = Some("Cannot grant network access due to missing parameters.")
    /\ ~page.buttonDisabled
    /\ page.location = None

====
